---- MODULE Spec2Model ----
(***************************************************************************)
(* Model of skills/slides-creator/utils/article_parser.py: the markdown    *)
(* article parser (ArticleParser.parse_content and its extraction helpers) *)
(* and the slide planner (create_slide_plan and its text helpers).         *)
(*                                                                         *)
(* A Python str is a sequence of one-character strings; "\n" is the line   *)
(* break and BQ stands for the backtick character.  The regular            *)
(* expressions of ArticleParser.__init__ are modelled by matchers that     *)
(* walk the character sequence the way re does (leftmost match, greedy or  *)
(* lazy quantifiers, backtracking where it can change the outcome).        *)
(***************************************************************************)
EXTENDS Integers, Sequences, FiniteSets, TLC

VARIABLES
    pc,         \* "call" before the operation runs, then which one has returned
    text,       \* the str argument (text / content) of the call
    num,        \* the int argument (max_words / max_bullets) of the call
    ret,        \* the value returned by the helper that was called
    files,      \* the file system: path -> what is found there
    file_path,  \* the argument of parse_file
    article,    \* the ArticleStructure (Document) built or passed in
    error,      \* the exception raised by the call, NoError when it returned
    slides,     \* the plan returned by create_slide_plan
    estimate    \* the value returned by calculate_slide_count

vars == <<pc, text, num, ret, files, file_path, article, error, slides, estimate>>

\* A result that no call has produced yet.
NoValue == "NoValue"

\* No Document was built; no exception was raised.
NoArticle == [sections |-> NoValue]

NoError == [type |-> "", message |-> <<>>]

----------------------------------------------------------------------------
(* Characters and the str methods the parser uses.                         *)

BQ == "BQ"

Whitespace == {" ", "\n", "\t"}

Terminators == {".", "!", "?"}

IsSpace(c) == c \in Whitespace

Max(S) == CHOOSE x \in S : \A y \in S : y <= x

Min(S) == CHOOSE x \in S : \A y \in S : x <= y

\* s[i:j] of Python for 1-based i and exclusive j: the characters i .. j-1.
Slice(s, i, j) == IF j <= i THEN <<>> ELSE SubSeq(s, i, j - 1)

\* str.strip(): leading and trailing whitespace removed.
Strip(s) ==
    LET keep == {i \in 1..Len(s) : ~IsSpace(s[i])}
        first == CHOOSE i \in keep : \A k \in 1..(i - 1) : IsSpace(s[k])
        last == CHOOSE i \in keep : \A k \in (i + 1)..Len(s) : IsSpace(s[k])
    IN  IF keep = {} THEN <<>> ELSE SubSeq(s, first, last)

\* s[:n] of Python: the first n characters, all of them when s is shorter.
Prefix(s, n) == IF Len(s) <= n THEN s ELSE SubSeq(s, 1, n)

\* len(s.split()): the number of maximal runs of non-whitespace characters.
WordCount(s) ==
    Cardinality({i \in 1..Len(s) :
        /\ ~IsSpace(s[i])
        /\ (i = 1 \/ IsSpace(s[i - 1]))})

\* re.split(r'[.!?]+', s): the pieces between maximal runs of terminators,
\* empty pieces at either end included.
RECURSIVE SplitSentences(_)
SplitSentences(s) ==
    LET seps == {i \in 1..Len(s) : s[i] \in Terminators}
    IN  IF seps = {} THEN <<s>>
        ELSE LET first == Min(seps)
                 after == {i \in first..Len(s) : s[i] \notin Terminators}
                 next  == IF after = {} THEN Len(s) + 1 ELSE Min(after)
             IN  <<Slice(s, 1, first)>> \o SplitSentences(Slice(s, next, Len(s) + 1))

\* [s.strip() for s in sentences if s.strip()]
RECURSIVE StripNonEmpty(_)
StripNonEmpty(pieces) ==
    IF pieces = <<>> THEN <<>>
    ELSE LET t == Strip(Head(pieces))
         IN  (IF t = <<>> THEN <<>> ELSE <<t>>) \o StripNonEmpty(Tail(pieces))

\* The two lines that open _condense_text and _get_context.
Sentences(s) == StripNonEmpty(SplitSentences(Strip(s)))

\* sep.join(parts)
RECURSIVE Join(_, _)
Join(parts, sep) ==
    IF parts = <<>> THEN <<>>
    ELSE IF Len(parts) = 1 THEN parts[1]
    ELSE parts[1] \o sep \o Join(Tail(parts), sep)

\* '\n'.join(lines), the way the inputs below are assembled.
RECURSIVE Flatten(_)
Flatten(parts) ==
    IF parts = <<>> THEN <<>> ELSE Head(parts) \o Flatten(Tail(parts))

\* All sequences over S of length 0 .. n.
SeqsUpTo(S, n) == UNION {[1..k -> S] : k \in 0..n}

----------------------------------------------------------------------------
(* _condense_text                                                          *)

Ellipsis == <<".", ".", ".">>

\* The for loop of _condense_text: state is the text built so far and the
\* running word count; the loop breaks at the first sentence that does not fit.
RECURSIVE CondenseLoop(_, _, _, _)
\* The same loop with the cap compared strictly.
CondenseLoopStrict(sentences, condensed, word_count, max_words) ==
    IF sentences = <<>> THEN [condensed |-> condensed, word_count |-> word_count]
    ELSE LET words == WordCount(Head(sentences))
         IN  IF word_count + words < max_words
             THEN CondenseLoop(Tail(sentences),
                               condensed \o Head(sentences) \o <<".", " ">>,
                               word_count + words, max_words)
             ELSE [condensed |-> condensed, word_count |-> word_count]

CondenseLoop(sentences, condensed, word_count, max_words) ==
    IF sentences = <<>> THEN [condensed |-> condensed, word_count |-> word_count]
    ELSE LET words == WordCount(Head(sentences))
         IN  IF word_count + words <= max_words
             THEN CondenseLoop(Tail(sentences),
                               condensed \o Head(sentences) \o <<".", " ">>,
                               word_count + words, max_words)
             ELSE [condensed |-> condensed, word_count |-> word_count]

_condense_text(s, max_words) ==
    LET end == CondenseLoop(Sentences(s), <<>>, 0, max_words)
        condensed == IF end.word_count > max_words
                     THEN end.condensed \o Ellipsis
                     ELSE end.condensed
    IN  Strip(condensed)

----------------------------------------------------------------------------
(* _condense_text applied to texts of up to MaxSentences sentences.         *)

MaxSentences == 3

MaxWords == 3

SentenceShapes ==
    { <<"a">>, <<"a", " ", "b">>, <<" ", "a", " ", " ", "b", " ", "c">>,
      <<" ">>, <<"a", "\n", "b">> }

SentenceEnds == { <<".">>, <<"!", "?">>, <<".", " ">> }

\* A sentence shape followed by a terminator run; the last one may lack it.
CondenseTexts ==
    { Flatten(parts) \o tail :
        parts \in SeqsUpTo({sh \o e : sh \in SentenceShapes, e \in SentenceEnds},
                           MaxSentences - 1),
        tail \in SentenceShapes \cup {<<>>} }

InitCondense ==
    /\ pc = "call"
    /\ text \in CondenseTexts
    /\ num \in -1..MaxWords
    /\ ret = NoValue
    /\ files = <<>> /\ file_path = <<>> /\ article = NoArticle
    /\ error = NoError /\ slides = NoValue /\ estimate = NoValue

CondenseText ==
    /\ pc = "call"
    /\ ret' = _condense_text(text, num)
    /\ pc' = "done"
    /\ UNCHANGED <<text, num, files, file_path, article, error, slides, estimate>>

NextCondense == CondenseText

SpecCondense == InitCondense /\ [][NextCondense]_vars

\* The sum of the word counts of the sentences.
RECURSIVE TotalWords(_)
TotalWords(sentences) ==
    IF sentences = <<>> THEN 0
    ELSE WordCount(Head(sentences)) + TotalWords(Tail(sentences))

\* The number of leading sentences that fit under the cap together.
Fitting(sentences, cap) ==
    Max({k \in 0..Len(sentences) : TotalWords(SubSeq(sentences, 1, k)) <= cap} \cup {0})

\* C3 (as claimed): when the sentences together exceed the cap, the result is
\* the sentences that fit, each followed by ". ", then a literal "...".
C3_EllipsisOnOverflow ==
    (pc = "done" /\ TotalWords(Sentences(text)) > num) =>
        LET sentences == Sentences(text)
            kept == SubSeq(sentences, 1, Fitting(sentences, num))
        IN  ret = Strip(Flatten([i \in 1..Len(kept) |-> kept[i] \o <<".", " ">>])
                        \o Ellipsis)

\* C4 (as claimed): a text whose total word count is at or under the cap comes
\* back as its non-empty trimmed sentences joined with ". " and nothing else.
C4_JoinedOnly ==
    (pc = "done" /\ TotalWords(Sentences(text)) <= num) =>
        ret = Join(Sentences(text), <<".", " ">>)

\* C4 (amended): a text whose total word count is at or under the cap comes
\* back as all its non-empty trimmed sentences, in order, joined with ". " and
\* closed by a final "." (each sentence is followed by a period); no ellipsis,
\* no sentence omitted; a text without sentences comes back empty.
C4_AllSentencesTerminated ==
    (pc = "done" /\ TotalWords(Sentences(text)) <= num) =>
        LET sentences == Sentences(text)
        IN  ret = IF sentences = <<>> THEN <<>>
                  ELSE Join(sentences, <<".", " ">>) \o <<".">>

\* C4's case: several sentences that together use the cap exactly.
C4_Witness ==
    /\ pc = "done"
    /\ Len(Sentences(text)) >= 2
    /\ TotalWords(Sentences(text)) = num
    /\ Len(ret) > 0

----------------------------------------------------------------------------
(* _extract_bullet_points and list_pattern                                 *)

NoMatch == [start |-> 0]

ListMarkers == {"*", "-", "+"}

\* The first index from i on where the line of i ends: a line break, or one
\* past the end of the text.
EndOfLine(s, i) ==
    Min({k \in i..Len(s) : s[k] = "\n"} \cup {Len(s) + 1})

\* list_pattern = ^[\*\-\+]\s+(.+)$ with re.MULTILINE, tried at index i.
\* ^ needs a line start; \s+ is greedy and may run over line breaks, giving
\* characters back until (.+) finds a character other than a line break; (.+)
\* then runs to the end of that line, where $ holds.
ListMatchAt(s, i) ==
    IF ~(i <= Len(s) /\ (i = 1 \/ s[i - 1] = "\n") /\ s[i] \in ListMarkers)
    THEN NoMatch
    ELSE LET r == Min({k \in (i + 1)..Len(s) : ~IsSpace(s[k])} \cup {Len(s) + 1})
             J == {j \in (i + 2)..r : j <= Len(s) /\ s[j] # "\n"}
         IN  IF J = {} THEN NoMatch
             ELSE LET j == Max(J)
                      e == EndOfLine(s, j)
                  IN  [start |-> i, end |-> e, group1 |-> Slice(s, j, e)]

\* list_pattern.finditer(text) from index p on: leftmost match, then on from
\* its end.
RECURSIVE ListMatches(_, _)
ListMatches(s, p) ==
    LET I == {i \in p..Len(s) : ListMatchAt(s, i) # NoMatch}
    IN  IF I = {} THEN <<>>
        ELSE LET m == ListMatchAt(s, Min(I))
             IN  <<m>> \o ListMatches(s, m.end)

\* The for loop of _extract_bullet_points.
RECURSIVE BulletLoop(_, _, _)
BulletLoop(matches, bullets, max_bullets) ==
    IF matches = <<>> THEN bullets
    ELSE BulletLoop(Tail(matches),
                    IF Len(bullets) < max_bullets
                    THEN Append(bullets, Strip(Head(matches).group1))
                    ELSE bullets,
                    max_bullets)

_extract_bullet_points(s, max_bullets) ==
    BulletLoop(ListMatches(s, 1), <<>>, max_bullets)

----------------------------------------------------------------------------
(* _extract_bullet_points applied to texts of up to MaxLines lines.        *)

MaxLines == 3

MaxBullets == 2

BulletLineShapes ==
    { <<"-", " ", "a">>, <<"*", " ", "b", " ", "c">>, <<"+", "\t", "d", " ">>,
      <<"-">>, <<"-", " ", " ">>, <<"a">>, <<>>, <<" ", "-", " ", "a">> }

Texts(shapes, n) == {Join(ls, <<"\n">>) : ls \in SeqsUpTo(shapes, n)}

InitBullets ==
    /\ pc = "call"
    /\ text \in Texts(BulletLineShapes, MaxLines)
    /\ num \in 0..MaxBullets
    /\ ret = NoValue
    /\ files = <<>> /\ file_path = <<>> /\ article = NoArticle
    /\ error = NoError /\ slides = NoValue /\ estimate = NoValue

ExtractBulletPoints ==
    /\ pc = "call"
    /\ ret' = _extract_bullet_points(text, num)
    /\ pc' = "done"
    /\ UNCHANGED <<text, num, files, file_path, article, error, slides, estimate>>

NextBullets == ExtractBulletPoints

SpecBullets == InitBullets /\ [][NextBullets]_vars

\* content.split('\n')
RECURSIVE SplitLines(_)
SplitLines(s) ==
    LET e == EndOfLine(s, 1)
    IN  IF e > Len(s) THEN <<s>>
        ELSE <<Slice(s, 1, e)>> \o SplitLines(Slice(s, e + 1, Len(s) + 1))

\* A list-marker line: a marker, then whitespace, then text, all on the line.
IsListMarkerLine(line) ==
    Len(line) >= 3 /\ line[1] \in ListMarkers /\ IsSpace(line[2])

RECURSIVE MarkerLineItems(_)
MarkerLineItems(lines) ==
    IF lines = <<>> THEN <<>>
    ELSE (IF IsListMarkerLine(Head(lines)) THEN <<Strip(Tail(Head(lines)))>> ELSE <<>>)
         \o MarkerLineItems(Tail(lines))

\* C5 (as claimed): the result is the items of the first min(k, max_bullets)
\* list-marker lines of the text, in order, k being the number of such lines.
C5_FirstMarkerLines ==
    pc = "done" =>
        ret = Prefix(MarkerLineItems(SplitLines(text)), num)

----------------------------------------------------------------------------
(* _extract_sections and heading_pattern                                   *)

\* Section(heading, level, content) after __post_init__: the three lists are
\* empty lists.
Section(heading, level) ==
    [heading |-> heading, level |-> level, content |-> <<>>,
     subsections |-> <<>>, code_blocks |-> <<>>, images |-> <<>>]

NoSection == [level |-> 0]

\* heading_pattern = ^(#{1,6})\s+(.+)$ matched against one line: one to six
\* '#', then whitespace, then the heading text.  A seventh '#' or a character
\* other than whitespace after the run of '#' makes the match fail; \s+ gives
\* its last character back when nothing follows the whitespace.
HeadingMatch(line) ==
    LET h == Min({k \in 1..Len(line) : line[k] # "#"} \cup {Len(line) + 1}) - 1
        r == Min({k \in (h + 1)..Len(line) : ~IsSpace(line[k])} \cup {Len(line) + 1})
        J == {j \in (h + 2)..r : j <= Len(line) /\ line[j] # "\n"}
    IN  IF h < 1 \/ h > 6 \/ J = {} THEN NoMatch
        ELSE [start |-> 1, level |-> h,
              heading |-> Slice(line, Max(J), EndOfLine(line, Max(J)))]

\* The body of the for loop with a level-3 heading that has no open section
\* kept as a section of its own.
SectionStepKeepOrphan(st, line) ==
    LET match == HeadingMatch(line)
    IN  IF match # NoMatch
        THEN IF match.level = 2
             THEN [sections |-> IF st.current # NoSection
                                THEN Append(st.sections, st.current)
                                ELSE st.sections,
                   current |-> Section(match.heading, match.level)]
             ELSE IF match.level = 3
             THEN IF st.current # NoSection
                  THEN [st EXCEPT !.current.subsections =
                                Append(@, Section(match.heading, match.level))]
                  ELSE [st EXCEPT !.sections =
                                Append(@, Section(match.heading, match.level))]
             ELSE st
        ELSE IF st.current # NoSection
             THEN [st EXCEPT !.current.content = @ \o line \o <<"\n">>]
             ELSE st

\* The body of the for loop of _extract_sections, on the loop's state: the
\* list of closed sections and the section that is open (current_section).
SectionStep(st, line) ==
    LET match == HeadingMatch(line)
    IN  IF match # NoMatch
        THEN IF match.level = 2
             THEN [sections |-> IF st.current # NoSection
                                THEN Append(st.sections, st.current)
                                ELSE st.sections,
                   current |-> Section(match.heading, match.level)]
             ELSE IF match.level = 3 /\ st.current # NoSection
             THEN [st EXCEPT !.current.subsections =
                                Append(@, Section(match.heading, match.level))]
             ELSE st
        ELSE IF st.current # NoSection
             THEN [st EXCEPT !.current.content = @ \o line \o <<"\n">>]
             ELSE st

RECURSIVE SectionLoop(_, _)
SectionLoop(lines, st) ==
    IF lines = <<>> THEN st
    ELSE SectionLoop(Tail(lines), SectionStep(st, Head(lines)))

_extract_sections(content) ==
    LET end == SectionLoop(SplitLines(content),
                           [sections |-> <<>>, current |-> NoSection])
    IN  IF end.current # NoSection
        THEN Append(end.sections, end.current)
        ELSE end.sections

----------------------------------------------------------------------------
(* _extract_sections applied to texts of up to MaxSectionLines lines.      *)

MaxSectionLines == 4

SectionLineShapes ==
    { <<"#", "#", " ", "A">>, <<"#", "#", "\t", " ", "B", " ">>,
      <<"#", "#", "#", " ", "c">>, <<"#", "#", "#", " ", "d">>,
      <<"#", " ", "T">>, <<"#", "#", "#", "#", " ", "e">>,
      <<"x">>, <<"#", "#", "#", "f">>, <<>> }

InitSections ==
    /\ pc = "call"
    /\ text \in Texts(SectionLineShapes, MaxSectionLines)
    /\ num = 0
    /\ ret = NoValue
    /\ files = <<>> /\ file_path = <<>> /\ article = NoArticle
    /\ error = NoError /\ slides = NoValue /\ estimate = NoValue

ExtractSections ==
    /\ pc = "call"
    /\ ret' = _extract_sections(text)
    /\ pc' = "done"
    /\ UNCHANGED <<text, num, files, file_path, article, error, slides, estimate>>

NextSections == ExtractSections

SpecSections == InitSections /\ [][NextSections]_vars

\* The elements of a finite set of integers in ascending order.
RECURSIVE Ascending(_)
Ascending(S) ==
    IF S = {} THEN <<>> ELSE <<Min(S)>> \o Ascending(S \ {Min(S)})

\* The indices of the lines that are headings of the given level.
HeadingLines(lines, level) ==
    {i \in 1..Len(lines) :
        HeadingMatch(lines[i]) # NoMatch /\ HeadingMatch(lines[i]).level = level}

\* C6: the top-level list is the level-2 headings in document order, and the
\* subsections of each are exactly the level-3 headings that lie between it
\* and the next level-2 heading, in order, each once; a level-3 heading before
\* the first level-2 heading is in no list.
C6_SectionTree ==
    pc = "done" =>
        LET lines == SplitLines(text)
            h2 == Ascending(HeadingLines(lines, 2))
            h3 == HeadingLines(lines, 3)
            upto(k) == IF k < Len(h2) THEN h2[k + 1] ELSE Len(lines) + 1
            under(k) == Ascending({j \in h3 : h2[k] < j /\ j < upto(k)})
        IN  /\ Len(ret) = Len(h2)
            /\ \A k \in 1..Len(h2) :
                /\ ret[k].level = 2
                /\ ret[k].heading = HeadingMatch(lines[h2[k]]).heading
                /\ Len(ret[k].subsections) = Len(under(k))
                /\ \A n \in 1..Len(under(k)) :
                    /\ ret[k].subsections[n].level = 3
                    /\ ret[k].subsections[n].heading =
                           HeadingMatch(lines[under(k)[n]]).heading
                    /\ ret[k].subsections[n].subsections = <<>>

\* C6's case: a level-3 heading before the first level-2 heading, and a
\* level-2 section that received a subsection.
C6_Witness ==
    /\ pc = "done"
    /\ LET lines == SplitLines(text)
       IN  /\ HeadingLines(lines, 2) # {}
           /\ \E j \in HeadingLines(lines, 3) : j < Min(HeadingLines(lines, 2))
    /\ Len(ret) >= 2
    /\ \E k \in 1..Len(ret) : ret[k].subsections # <<>>

\* The lines with the given indices, in order, each followed by a line break.
LinesText(lines, S) ==
    LET order == Ascending(S)
    IN  Flatten([n \in 1..Len(order) |-> lines[order[n]] \o <<"\n">>])

\* The level of the heading on a line, 0 for a line that is no heading.
LevelOf(line) ==
    IF HeadingMatch(line) = NoMatch THEN 0 ELSE HeadingMatch(line).level

\* C13: a heading of depth 1, 4, 5 or 6 met while a level-2 section is open
\* neither opens nor closes a section and is body text: the body of a level-2
\* section is every line between its heading and the next level-2 heading
\* that is not a heading of level 3 (which opens a subsection), headings of
\* the other depths included, each followed by a line break.
C13_OtherHeadingsAreBodyText ==
    pc = "done" =>
        LET lines == SplitLines(text)
            h2 == Ascending(HeadingLines(lines, 2))
            upto(k) == IF k < Len(h2) THEN h2[k + 1] ELSE Len(lines) + 1
        IN  /\ Len(ret) = Len(h2)
            /\ \A k \in 1..Len(h2) :
                ret[k].content =
                    LinesText(lines, {j \in (h2[k] + 1)..(upto(k) - 1) :
                                         LevelOf(lines[j]) \notin {2, 3}})

\* C14: the body of a section is the lines that are no headings between its
\* heading and the next heading of the same or a higher rank, each followed
\* by a line break: for a level-2 section up to the next level-2 heading, for
\* a level-3 section up to the next heading of level 3 or 2.
C14_BodyUpToNextHeading ==
    pc = "done" =>
        LET lines == SplitLines(text)
            h2 == Ascending(HeadingLines(lines, 2))
            upto(k) == IF k < Len(h2) THEN h2[k + 1] ELSE Len(lines) + 1
            under(k) == Ascending({j \in HeadingLines(lines, 3) :
                                      h2[k] < j /\ j < upto(k)})
            subupto(k, n) == IF n < Len(under(k)) THEN under(k)[n + 1] ELSE upto(k)
        IN  /\ Len(ret) = Len(h2)
            /\ \A k \in 1..Len(h2) :
                /\ ret[k].content =
                       LinesText(lines, {j \in (h2[k] + 1)..(upto(k) - 1) :
                                            LevelOf(lines[j]) = 0})
                /\ Len(ret[k].subsections) = Len(under(k))
                /\ \A n \in 1..Len(under(k)) :
                    ret[k].subsections[n].content =
                        LinesText(lines, {j \in (under(k)[n] + 1)..(subupto(k, n) - 1) :
                                             LevelOf(lines[j]) = 0})

----------------------------------------------------------------------------
(* The dataclasses CodeBlock and ImageReference                            *)

\* CodeBlock(language, code, context_before, context_after) after
\* __post_init__, which derives line_count from the code.
CodeBlock(language, code, context_before, context_after) ==
    [language |-> language, code |-> code,
     context_before |-> context_before, context_after |-> context_after,
     line_count |-> Len(SplitLines(Strip(code)))]

\* ImageReference(alt_text, file_path, is_diagram=...): caption keeps its
\* default.
ImageReference(alt_text, path, is_diagram) ==
    [alt_text |-> alt_text, file_path |-> path,
     caption |-> <<>>, is_diagram |-> is_diagram]

----------------------------------------------------------------------------
(* str.lower and the `in` test on strings                                  *)

UpperCase ==
    <<"A", "B", "C", "D", "E", "F", "G", "H", "I", "J", "K", "L", "M",
      "N", "O", "P", "Q", "R", "S", "T", "U", "V", "W", "X", "Y", "Z">>

LowerCase ==
    <<"a", "b", "c", "d", "e", "f", "g", "h", "i", "j", "k", "l", "m",
      "n", "o", "p", "q", "r", "s", "t", "u", "v", "w", "x", "y", "z">>

LowerChar(c) ==
    IF \E k \in 1..Len(UpperCase) : UpperCase[k] = c
    THEN LowerCase[CHOOSE k \in 1..Len(UpperCase) : UpperCase[k] = c]
    ELSE c

\* s.lower()
Lower(s) == [i \in 1..Len(s) |-> LowerChar(s[i])]

\* sub in s
Contains(s, sub) ==
    \E i \in 1..(Len(s) - Len(sub) + 1) : SubSeq(s, i, i + Len(sub) - 1) = sub

----------------------------------------------------------------------------
(* _extract_code_blocks, code_block_pattern and _get_context               *)

Digits == {"0", "1", "2", "3", "4", "5", "6", "7", "8", "9"}

\* \w
IsWordChar(c) ==
    \/ \E k \in 1..Len(LowerCase) : c = LowerCase[k] \/ c = UpperCase[k]
    \/ c \in Digits
    \/ c = "_"

\* Three backticks from index i on.
FenceAt(s, i) ==
    i + 2 <= Len(s) /\ s[i] = BQ /\ s[i + 1] = BQ /\ s[i + 2] = BQ

\* code_block_pattern = ```(\w*)\n(.*?)``` with re.DOTALL, tried at index i:
\* a fence, the run of word characters after it, a line break right after
\* that run, then everything up to the nearest following fence.
CodeMatchAt(s, i) ==
    IF ~FenceAt(s, i) THEN NoMatch
    ELSE LET j == Min({k \in (i + 3)..Len(s) : ~IsWordChar(s[k])} \cup {Len(s) + 1})
         IN  IF ~(j <= Len(s) /\ s[j] = "\n") THEN NoMatch
             ELSE LET K == {k \in (j + 1)..Len(s) : FenceAt(s, k)}
                  IN  IF K = {} THEN NoMatch
                      ELSE [start |-> i, end |-> Min(K) + 3,
                            group1 |-> Slice(s, i + 3, j),
                            group2 |-> Slice(s, j + 1, Min(K))]

\* code_block_pattern.finditer(content) from index p on.
RECURSIVE CodeMatches(_, _)
CodeMatches(s, p) ==
    IF p > Len(s) THEN <<>>
    ELSE IF CodeMatchAt(s, p) = NoMatch THEN CodeMatches(s, p + 1)
    ELSE <<CodeMatchAt(s, p)>> \o CodeMatches(s, CodeMatchAt(s, p).end)

ContextChars == 200

\* sentences[-n:]
LastN(q, n) == IF Len(q) <= n THEN q ELSE SubSeq(q, Len(q) - n + 1, Len(q))

_get_context(s, num_sentences) ==
    LET sentences == Sentences(s)
    IN  IF sentences = <<>> THEN <<>>
        ELSE Prefix(Strip(Join(LastN(sentences, num_sentences), <<".", " ">>)),
                    ContextChars)

DefaultLanguage == <<"t", "e", "x", "t">>

\* The body of the for loop with the code left as the pattern captured it.
BlockOfMatchUnstripped(content, match) ==
    CodeBlock(IF match.group1 # <<>> THEN match.group1 ELSE DefaultLanguage,
              match.group2,
              _get_context(Slice(content, 1, match.start), 2),
              _get_context(Slice(content, match.end, Len(content) + 1), 2))

\* The body of the for loop of _extract_code_blocks: the CodeBlock built
\* from one match.
BlockOfMatch(content, match) ==
    CodeBlock(IF match.group1 # <<>> THEN match.group1 ELSE DefaultLanguage,
              Strip(match.group2),
              _get_context(Slice(content, 1, match.start), 2),
              _get_context(Slice(content, match.end, Len(content) + 1), 2))

_extract_code_blocks(content) ==
    LET matches == CodeMatches(content, 1)
    IN  [i \in 1..Len(matches) |-> BlockOfMatch(content, matches[i])]

----------------------------------------------------------------------------
(* _extract_images and image_pattern                                       *)

\* image_pattern = !\[([^\]]*)\]\(([^\)]+)\), tried at index i: "![", the
\* characters up to the nearest "]", "(" right after it, then at least one
\* character up to the nearest ")".
ImageMatchAt(s, i) ==
    IF ~(i + 1 <= Len(s) /\ s[i] = "!" /\ s[i + 1] = "[") THEN NoMatch
    ELSE LET j == Min({k \in (i + 2)..Len(s) : s[k] = "]"} \cup {Len(s) + 1})
         IN  IF ~(j + 1 <= Len(s) /\ s[j + 1] = "(") THEN NoMatch
             ELSE LET k == Min({n \in (j + 2)..Len(s) : s[n] = ")"} \cup {Len(s) + 1})
                  IN  IF k > Len(s) \/ k = j + 2 THEN NoMatch
                      ELSE [start |-> i, end |-> k + 1,
                            group1 |-> Slice(s, i + 2, j),
                            group2 |-> Slice(s, j + 2, k)]

\* image_pattern.finditer(content) from index p on.
RECURSIVE ImageMatches(_, _)
ImageMatches(s, p) ==
    IF p > Len(s) THEN <<>>
    ELSE IF ImageMatchAt(s, p) = NoMatch THEN ImageMatches(s, p + 1)
    ELSE <<ImageMatchAt(s, p)>> \o ImageMatches(s, ImageMatchAt(s, p).end)

Mermaid == <<"m", "e", "r", "m", "a", "i", "d">>

PlantUml == <<"p", "l", "a", "n", "t", "u", "m", "l">>

\* The diagram test on the path as written, its case kept.
IsDiagramCaseSensitive(path) ==
    Contains(path, Mermaid) \/ Contains(path, PlantUml)

\* 'mermaid' in file_path.lower() or 'plantuml' in file_path.lower()
IsDiagram(path) ==
    Contains(Lower(path), Mermaid) \/ Contains(Lower(path), PlantUml)

_extract_images(content) ==
    LET matches == ImageMatches(content, 1)
    IN  [i \in 1..Len(matches) |->
            ImageReference(matches[i].group1, matches[i].group2,
                           IsDiagram(matches[i].group2))]

----------------------------------------------------------------------------
(* ArticleStructure.get_estimated_slide_count, calculate_slide_count,      *)
(* create_slide_plan and _extract_conclusion                               *)

\* [s for s in self.sections if s.level == 2]
H2Sections(sections) == SelectSeq(sections, LAMBDA sec : sec.level = 2)

\* The estimate with every section counted, whatever its level.
EstimateAllSections(a) ==
    1 + Len(a.sections) * 2 + Len(a.code_blocks) + Len(a.images) + 1

get_estimated_slide_count(a) ==
    1 + Len(H2Sections(a.sections)) * 2 + Len(a.code_blocks) + Len(a.images) + 1

calculate_slide_count(a) == get_estimated_slide_count(a)

CondenseWords == 100

DefaultMaxBullets == 5

NotesChars == 500

ConclusionWord == <<"c", "o", "n", "c", "l", "u", "s", "i", "o", "n">>

CallToAction ==
    <<"C", "h", "e", "c", "k", " ", "o", "u", "t", " ", "t", "h", "e", " ",
      "f", "u", "l", "l", " ", "a", "r", "t", "i", "c", "l", "e", " ", "a",
      "n", "d", " ", "c", "o", "d", "e", " ", "e", "x", "a", "m", "p", "l",
      "e", "s">>

KeyTakeaways == <<"K", "e", "y", " ", "T", "a", "k", "e", "a", "w", "a", "y", "s">>

TitleSlide(a) ==
    [type |-> "title",
     content |-> [title |-> a.title, author |-> a.author,
                  date |-> a.date, tags |-> a.tags],
     speaker_notes |-> <<"P", "r", "e", "s", "e", "n", "t", "i", "n", "g", ":", " ">> \o a.title
                       \o <<"\n", "A", "u", "t", "h", "o", "r", ":", " ">> \o a.author]

ContentSlide(sec) ==
    [type |-> "content",
     content |-> [heading |-> sec.heading,
                  body |-> _condense_text(sec.content, CondenseWords),
                  bullet_points |-> _extract_bullet_points(sec.content, DefaultMaxBullets)],
     speaker_notes |-> Prefix(sec.content, NotesChars)]

CodeSlide(cb) ==
    [type |-> "code",
     content |-> [language |-> cb.language, code |-> cb.code,
                  context |-> cb.context_before],
     speaker_notes |-> cb.context_before \o <<"\n", "\n">> \o cb.context_after]

VisualSlide(img) ==
    [type |-> "visual",
     content |-> [alt_text |-> img.alt_text, file_path |-> img.file_path,
                  caption |-> img.caption],
     speaker_notes |-> img.caption]

\* The slides of one pass with the images taken before the code blocks.
SectionSlidesImagesFirst(sec) ==
    IF sec.level # 2 THEN <<>>
    ELSE <<ContentSlide(sec)>>
         \o [i \in 1..Len(sec.images) |-> VisualSlide(sec.images[i])]
         \o [i \in 1..Len(sec.code_blocks) |-> CodeSlide(sec.code_blocks[i])]

\* The slides of one pass of the loop over article.sections.
SectionSlides(sec) ==
    IF sec.level # 2 THEN <<>>
    ELSE <<ContentSlide(sec)>>
         \o [i \in 1..Len(sec.code_blocks) |-> CodeSlide(sec.code_blocks[i])]
         \o [i \in 1..Len(sec.images) |-> VisualSlide(sec.images[i])]

RECURSIVE AllSectionSlides(_)
AllSectionSlides(sections) ==
    IF sections = <<>> THEN <<>>
    ELSE SectionSlides(Head(sections)) \o AllSectionSlides(Tail(sections))

\* _extract_conclusion falling back on the first section of level 2.
ExtractConclusionFirstLevel2(a) ==
    LET found == {i \in 1..Len(a.sections) :
                     Contains(Lower(a.sections[i].heading), ConclusionWord)}
        conclusion_content == IF found = {} THEN <<>>
                              ELSE a.sections[Min(found)].content
        first == _extract_bullet_points(conclusion_content, 5)
        main == {i \in 1..Len(a.sections) : a.sections[i].level = 2}
        takeaways == IF first = <<>>
                     THEN _extract_bullet_points(
                              IF main # {} THEN a.sections[Min(main)].content ELSE <<>>, 5)
                     ELSE first
    IN  [takeaways |-> takeaways, cta |-> CallToAction,
         notes |-> Prefix(conclusion_content, NotesChars)]

_extract_conclusion(a) ==
    LET found == {i \in 1..Len(a.sections) :
                     Contains(Lower(a.sections[i].heading), ConclusionWord)}
        conclusion_content == IF found = {} THEN <<>>
                              ELSE a.sections[Min(found)].content
        first == _extract_bullet_points(conclusion_content, 5)
        takeaways == IF first = <<>>
                     THEN _extract_bullet_points(
                              IF a.sections # <<>> THEN a.sections[1].content ELSE <<>>, 5)
                     ELSE first
    IN  [takeaways |-> takeaways, cta |-> CallToAction,
         notes |-> Prefix(conclusion_content, NotesChars)]

ConclusionSlide(a) ==
    LET conclusion == _extract_conclusion(a)
    IN  [type |-> "conclusion",
         content |-> [heading |-> KeyTakeaways,
                      takeaways |-> conclusion.takeaways,
                      cta |-> conclusion.cta],
         speaker_notes |-> conclusion.notes]

\* The plan without its closing slide when the article has no section.
PlanWithoutConclusionWhenEmpty(a) ==
    IF a.sections = <<>> THEN <<TitleSlide(a)>>
    ELSE <<TitleSlide(a)>> \o AllSectionSlides(a.sections) \o <<ConclusionSlide(a)>>

create_slide_plan(a) ==
    <<TitleSlide(a)>> \o AllSectionSlides(a.sections) \o <<ConclusionSlide(a)>>

----------------------------------------------------------------------------
(* The planner applied to Documents of up to MaxSections sections, with up *)
(* to MaxFlat document-level code blocks and images.                       *)

MaxSections == 2

MaxFlat == 1

SampleBlock == CodeBlock(<<"p", "y">>, <<"p", "r", "i", "n", "t", "(", "1", ")">>, <<"S", "e", "e", " ", "t", "h", "i", "s">>, <<"I", "t", " ", "p", "r", "i", "n", "t", "s">>)

SampleImage == ImageReference(<<"F", "l", "o", "w">>, <<"i", "m", "g", "/", "f", "l", "o", "w", ".", "p", "n", "g">>, FALSE)

OtherBlock == CodeBlock(<<"s", "h">>, <<"l", "s">>, <<>>, <<>>)

OtherImage == ImageReference(<<"M", "e", "r", "m", "a", "i", "d">>, <<"d", ".", "s", "v", "g">>, TRUE)

SampleSection(heading, level, content, code_blocks, images) ==
    [heading |-> heading, level |-> level, content |-> content,
     subsections |-> <<>>, code_blocks |-> code_blocks, images |-> images]

\* A body with more list-marker lines than a slide takes and more words and
\* characters than a slide keeps.
LongContent ==
    Flatten([i \in 1..(DefaultMaxBullets + 1) |-> <<"-", " ", "k", "\n">>])
    \o Flatten([i \in 1..CondenseWords |-> <<"w", "o", "r", "d", " ">>])

PlanSections ==
    { SampleSection(<<"C", "o", "n", "c", "l", "u", "s", "i", "o", "n", "s">>, 2, LongContent,
                    <<SampleBlock>>, <<SampleImage, OtherImage>>),
      SampleSection(<<"I", "n", "t", "r", "o">>, 2, <<"O", "n", "e", " ", "t", "w", "o", ".", " ", "T", "h", "r", "e", "e", "!", "\n">>, <<>>, <<>>),
      SampleSection(<<"I", "n", "t", "r", "o">>, 2, <<"I", "n", "t", "r", "o", " ", "t", "e", "x", "t", ".", "\n", "-", " ", "a", "\n", "*", " ", "b", " ", "c", "\n">>, <<SampleBlock>>, <<SampleImage>>),
      SampleSection(<<"S", "e", "t", "u", "p">>, 2, <<>>, <<SampleBlock, OtherBlock>>, <<>>),
      SampleSection(<<"I", "n", " ", "C", "O", "N", "C", "L", "U", "S", "I", "O", "N">>, 2, <<"+", " ", "z", "\n">>, <<>>, <<SampleImage>>),
      SampleSection(<<"C", "o", "n", "c", "l", "u", "s", "i", "o", "n">>, 2, <<"O", "n", "e", " ", "t", "w", "o", ".", " ", "T", "h", "r", "e", "e", "!", "\n">>, <<>>, <<>>),
      SampleSection(<<"C", "o", "n", "c", "l", "u", "s", "i", "o", "n">>, 3, <<"+", " ", "z", "\n">>, <<SampleBlock>>, <<>>),
      SampleSection(<<"I", "n", "t", "r", "o">>, 3, <<"I", "n", "t", "r", "o", " ", "t", "e", "x", "t", ".", "\n", "-", " ", "a", "\n", "*", " ", "b", " ", "c", "\n">>, <<>>, <<SampleImage>>),
      SampleSection(<<"I", "n", "t", "r", "o">>, 1, <<"O", "n", "e", " ", "t", "w", "o", ".", " ", "T", "h", "r", "e", "e", "!", "\n">>, <<SampleBlock>>, <<SampleImage>>) }

Documents ==
    { [title |-> <<"T">>, author |-> <<"M", "e">>, date |-> <<>>, tags |-> <<>>,
       sections |-> secs,
       code_blocks |-> [i \in 1..nb |-> SampleBlock],
       images |-> [i \in 1..ni |-> SampleImage],
       raw_content |-> <<>>] :
        secs \in SeqsUpTo(PlanSections, MaxSections),
        nb \in 0..MaxFlat, ni \in 0..MaxFlat }

InitPlan ==
    /\ pc = "call"
    /\ article \in Documents
    /\ slides = NoValue /\ estimate = NoValue
    /\ text = <<>> /\ num = 0 /\ ret = NoValue
    /\ files = <<>> /\ file_path = <<>> /\ error = NoError

PlanReturned == pc \in {"planned", "done"}

EstimateReturned == pc \in {"estimated", "done"}

CreateSlidePlan ==
    /\ ~PlanReturned
    /\ article # NoArticle
    /\ slides' = create_slide_plan(article)
    /\ pc' = IF EstimateReturned THEN "done" ELSE "planned"
    /\ UNCHANGED <<text, num, ret, files, file_path, article, error, estimate>>

CalculateSlideCount ==
    /\ ~EstimateReturned
    /\ article # NoArticle
    /\ estimate' = calculate_slide_count(article)
    /\ pc' = IF PlanReturned THEN "done" ELSE "estimated"
    /\ UNCHANGED <<text, num, ret, files, file_path, article, error, slides>>

GetEstimatedSlideCount ==
    /\ ~EstimateReturned
    /\ article # NoArticle
    /\ estimate' = get_estimated_slide_count(article)
    /\ pc' = IF PlanReturned THEN "done" ELSE "estimated"
    /\ UNCHANGED <<text, num, ret, files, file_path, article, error, slides>>

NextPlan == CreateSlidePlan \/ CalculateSlideCount \/ GetEstimatedSlideCount

SpecPlan == InitPlan /\ [][NextPlan]_vars

\* C1: every plan is non-empty, opens with the one title slide and closes
\* with the one conclusion slide.
C1_TitleFirstConclusionLast ==
    PlanReturned =>
        /\ Len(slides) >= 1
        /\ slides[1].type = "title"
        /\ slides[Len(slides)].type = "conclusion"
        /\ \A i \in 1..Len(slides) :
            /\ slides[i].type = "title" => i = 1
            /\ slides[i].type = "conclusion" => i = Len(slides)

\* C1's case: the plan of a Document without sections, code blocks and images.
C1_Witness ==
    /\ PlanReturned
    /\ article.sections = <<>> /\ article.code_blocks = <<>> /\ article.images = <<>>
    /\ Len(slides) = 2

\* The slides of the plan between its first and its last.
Middle(plan) == SubSeq(plan, 2, Len(plan) - 1)

\* The number of slides that the sections before section i account for: one
\* content slide, the code blocks and the images of each section of level 2.
RECURSIVE SlidesBefore(_, _)
SlidesBefore(sections, i) ==
    IF i <= 1 THEN 0
    ELSE SlidesBefore(sections, i - 1)
         + (IF sections[i - 1].level = 2
            THEN 1 + Len(sections[i - 1].code_blocks) + Len(sections[i - 1].images)
            ELSE 0)

\* C11: between the title and the conclusion slide the plan holds, for each
\* section of level 2 in document order, one content slide (the section's
\* heading, at most 5 bullet points, the first 500 characters of the body as
\* notes), then a code slide per attached code block, then a visual slide per
\* attached image, in order; sections of other levels add nothing.
C11_SectionSlidesInOrder ==
    PlanReturned =>
        LET secs == article.sections
            mid == Middle(slides)
        IN  /\ Len(mid) = SlidesBefore(secs, Len(secs) + 1)
            /\ \A i \in 1..Len(secs) :
                secs[i].level = 2 =>
                    LET at == SlidesBefore(secs, i) + 1
                        nb == Len(secs[i].code_blocks)
                        notes == mid[at].speaker_notes
                    IN  /\ mid[at].type = "content"
                        /\ mid[at].content.heading = secs[i].heading
                        /\ Len(mid[at].content.bullet_points) <= 5
                        /\ Len(notes) = IF Len(secs[i].content) < 500
                                        THEN Len(secs[i].content) ELSE 500
                        /\ \A k \in 1..Len(notes) : notes[k] = secs[i].content[k]
                        /\ \A j \in 1..nb :
                            /\ mid[at + j].type = "code"
                            /\ mid[at + j].content.code = secs[i].code_blocks[j].code
                            /\ mid[at + j].content.language = secs[i].code_blocks[j].language
                        /\ \A j \in 1..Len(secs[i].images) :
                            /\ mid[at + nb + j].type = "visual"
                            /\ mid[at + nb + j].content.file_path = secs[i].images[j].file_path

\* C11's case: a plan with a content, a code and a visual slide in a row and
\* with a body cut to 500 characters of notes and 5 bullet points, for a
\* Document that also holds a section of another level.
C11_Witness ==
    /\ PlanReturned
    /\ \E i \in 1..Len(article.sections) : article.sections[i].level # 2
    /\ \E k \in 1..(Len(slides) - 2) :
        /\ slides[k].type = "content"
        /\ slides[k + 1].type = "code"
        /\ slides[k + 2].type = "visual"
    /\ \E k \in 1..(Len(slides) - 1) :
        /\ slides[k].type = slides[k + 1].type
        /\ slides[k].type \in {"code", "visual"}
        /\ slides[k].content # slides[k + 1].content
    /\ \E k \in 1..Len(slides) :
        /\ slides[k].type = "content"
        /\ Len(slides[k].speaker_notes) = 500
        /\ Len(slides[k].content.bullet_points) = 5

\* The number of sections of level 2.
Level2Count(a) == Cardinality({i \in 1..Len(a.sections) : a.sections[i].level = 2})

\* C7: the estimate is 1 + 2 * (level-2 sections) + (document-level code
\* blocks) + (document-level images) + 1, which is 6 for two level-2
\* sections and nothing else, and estimating leaves the Document as it was.
C7_EstimateFormula ==
    /\ [](EstimateReturned =>
            /\ estimate = 1 + 2 * Level2Count(article)
                            + Len(article.code_blocks) + Len(article.images) + 1
            /\ (Level2Count(article) = 2 /\ article.code_blocks = <<>>
                    /\ article.images = <<>>) => estimate = 6)
    /\ [][article' = article]_vars

\* C7's case: an estimate for a Document with sections of level 2 and of
\* other levels, a code block and an image.
C7_Witness ==
    /\ EstimateReturned
    /\ Level2Count(article) >= 1
    /\ Level2Count(article) < Len(article.sections)
    /\ article.code_blocks # <<>> /\ article.images # <<>>
    /\ estimate = 2 * Level2Count(article) + 4

----------------------------------------------------------------------------
(* _extract_code_blocks applied to texts of up to MaxCodeSegments pieces.  *)

MaxCodeSegments == 3

CodeSegments ==
    { <<"I", "n", "t", "r", "o", ".", " ", "S", "e", "e", " ", "t", "h",
        "i", "s", ":", " ">>,
      <<BQ, BQ, BQ, "p", "y", "t", "h", "o", "n", "\n", "p", "r", "i", "n",
        "t", "(", "1", ")", BQ, BQ, BQ>>,
      <<BQ, BQ, BQ, "\n", " ", "x", "\n", "y", " ", "\n", "\n", BQ, BQ, BQ,
        "\n">>,
      <<BQ, BQ, BQ, "c", "+", "+", "\n", "z", "\n", BQ, BQ, BQ>>,
      <<BQ, BQ, BQ, "p", "y", "\n">>,
      <<"D", "o", "n", "e", "!", " ">>,
      <<BQ, BQ, BQ, "\n", BQ, BQ, BQ>> }

Concatenations(segments, n) == {Flatten(q) : q \in SeqsUpTo(segments, n)}

InitCode ==
    /\ pc = "call"
    /\ text \in Concatenations(CodeSegments, MaxCodeSegments)
    /\ num = 0
    /\ ret = NoValue
    /\ files = <<>> /\ file_path = <<>> /\ article = NoArticle
    /\ error = NoError /\ slides = NoValue /\ estimate = NoValue

ExtractCodeBlocks ==
    /\ pc = "call"
    /\ ret' = _extract_code_blocks(text)
    /\ pc' = "done"
    /\ UNCHANGED <<text, num, files, file_path, article, error, slides, estimate>>

NextCode == ExtractCodeBlocks

SpecCode == InitCode /\ [][NextCode]_vars

\* c is b with its leading and trailing whitespace removed.
IsTrimOf(c, b) ==
    \E lead \in 0..(Len(b) - Len(c)) :
        /\ \A i \in 1..lead : IsSpace(b[i])
        /\ \A i \in 1..Len(c) : b[lead + i] = c[i]
        /\ \A i \in (lead + Len(c) + 1)..Len(b) : IsSpace(b[i])
        /\ c # <<>> => ~IsSpace(c[1]) /\ ~IsSpace(c[Len(c)])

\* The number of lines of a text: one more than its line breaks.
LineCount(c) == 1 + Cardinality({i \in 1..Len(c) : c[i] = "\n"})

\* C8: one CodeBlock per fenced block the pattern finds, in document order;
\* each has the block's language tag ("text" for an empty tag), the block's
\* body without its leading and trailing whitespace as code, and the number of
\* lines of that code (one more than its line breaks) as line_count.
C8_CodeBlockFields ==
    pc = "done" =>
        LET fenced == CodeMatches(text, 1)
        IN  /\ Len(ret) = Len(fenced)
            /\ \A i \in 1..Len(fenced) :
                /\ ret[i].language = IF fenced[i].group1 = <<>> THEN DefaultLanguage
                                     ELSE fenced[i].group1
                /\ IsTrimOf(ret[i].code, fenced[i].group2)
                /\ ret[i].line_count = LineCount(ret[i].code)
                /\ FenceAt(text, fenced[i].start)
                /\ FenceAt(text, fenced[i].end - 3)
                /\ i > 1 => fenced[i - 1].end <= fenced[i].start

\* C8's case: two blocks, the first fenced as python with body print(1), the
\* second untagged with surrounding whitespace and several lines.
C8_Witness ==
    /\ pc = "done"
    /\ Len(ret) = 2
    /\ ret[1].language = <<"p", "y", "t", "h", "o", "n">> /\ ret[1].code = <<"p", "r", "i", "n", "t", "(", "1", ")">> /\ ret[1].line_count = 1
    /\ ret[2].language = DefaultLanguage /\ ret[2].line_count = 2
    /\ Len(ret[2].code) < Len(CodeMatches(text, 1)[2].group2)

\* The first n entries of a sequence, all of them when it is shorter.
FirstN(q, n) == IF Len(q) <= n THEN q ELSE SubSeq(q, 1, n)

\* The entries of a sequence from the n-th last on.
FromNthLast(q, n) == IF Len(q) <= n THEN q ELSE SubSeq(q, Len(q) - n + 1, Len(q))

\* The sentences joined with ". ", cut to 200 characters.
ContextOf(sentences) ==
    LET joined == Join(sentences, <<".", " ">>)
    IN  IF Len(joined) <= 200 THEN joined ELSE SubSeq(joined, 1, 200)

\* C15: context_before is the last two (or fewer) non-empty sentences of the
\* text before the block and context_after the first two (or fewer) non-empty
\* sentences of the text after it, joined with ". ", at most 200 characters,
\* and empty when there is no sentence.
C15_ContextBeforeAndAfter ==
    pc = "done" =>
        LET fenced == CodeMatches(text, 1)
        IN  /\ Len(ret) = Len(fenced)
            /\ \A i \in 1..Len(fenced) :
                /\ ret[i].context_before =
                       ContextOf(FromNthLast(Sentences(Slice(text, 1, fenced[i].start)), 2))
                /\ ret[i].context_after =
                       ContextOf(FirstN(Sentences(Slice(text, fenced[i].end, Len(text) + 1)), 2))

----------------------------------------------------------------------------
(* _extract_images applied to texts of up to MaxImageSegments pieces.      *)

MaxImageSegments == 3

ImageSegments ==
    { <<"!", "[", "D", "i", "a", "g", "r", "a", "m", "]", "(", "d", "i",
        "a", "g", "r", "a", "m", "s", "/", "m", "e", "r", "m", "a", "i",
        "d", "_", "f", "l", "o", "w", ".", "p", "n", "g", ")">>,
      <<"!", "[", "P", "h", "o", "t", "o", "]", "(", "i", "m", "g", "/",
        "p", "h", "o", "t", "o", ".", "p", "n", "g", ")">>,
      <<"!", "[", "U", "]", "(", "d", "/", "P", "l", "a", "n", "t", "U",
        "M", "L", ".", "s", "v", "g", ")">>,
      <<"!", "[", "]", "(", "M", "e", "r", "M", "a", "i", "d", ")">>,
      <<"!", "[", "x", "]", "(", ")">>,
      <<"[", "a", "]", "(", "b", ")">>,
      <<"t", "e", "x", "t", " ">>,
      <<"!", "[", "m", "e", "r", "m", "a", "i", "d", "]", "(", "x", ".",
        "p", "n", "g">>,
      <<")", "\n">>,
      <<"!", "[", "a", "]", "(", "m", "e", "r", "m", "a", " ", "i", "d", ")">> }

InitImages ==
    /\ pc = "call"
    /\ text \in Concatenations(ImageSegments, MaxImageSegments)
    /\ num = 0
    /\ ret = NoValue
    /\ files = <<>> /\ file_path = <<>> /\ article = NoArticle
    /\ error = NoError /\ slides = NoValue /\ estimate = NoValue

ExtractImages ==
    /\ pc = "call"
    /\ ret' = _extract_images(text)
    /\ pc' = "done"
    /\ UNCHANGED <<text, num, files, file_path, article, error, slides, estimate>>

NextImages == ExtractImages

SpecImages == InitImages /\ [][NextImages]_vars

\* Two characters that are the same letter, whatever their case.
SameLetter(c, d) ==
    c = d \/ \E k \in 1..Len(UpperCase) : {c, d} = {UpperCase[k], LowerCase[k]}

\* The word occurs in the path, case ignored.
HasWord(path, word) ==
    \E i \in 0..(Len(path) - Len(word)) :
        \A k \in 1..Len(word) : SameLetter(path[i + k], word[k])

\* C9: one ImageReference per image reference of the text, in document order,
\* with the reference's alt text and path, an empty caption, and is_diagram
\* set exactly when the path holds "mermaid" or "plantuml", case ignored.
C9_ImageFields ==
    pc = "done" =>
        LET refs == ImageMatches(text, 1)
        IN  /\ Len(ret) = Len(refs)
            /\ \A i \in 1..Len(refs) :
                /\ ret[i].alt_text = refs[i].group1
                /\ ret[i].file_path = refs[i].group2
                /\ ret[i].caption = <<>>
                /\ ret[i].is_diagram <=>
                       (HasWord(ret[i].file_path, Mermaid)
                            \/ HasWord(ret[i].file_path, PlantUml))
                /\ text[refs[i].start] = "!"
                /\ text[refs[i].end - 1] = ")"
                /\ i > 1 => refs[i - 1].end <= refs[i].start

\* C9's case: a diagram whose path spells the word in mixed case, next to an
\* image that is no diagram.
C9_Witness ==
    /\ pc = "done"
    /\ \E i, j \in 1..Len(ret) :
        /\ ret[i].is_diagram
        /\ ~Contains(ret[i].file_path, Mermaid)
        /\ ~Contains(ret[i].file_path, PlantUml)
        /\ ~ret[j].is_diagram

----------------------------------------------------------------------------
(* _extract_frontmatter, parse_content and parse_file                      *)

\* frontmatter_pattern = ^---\n(.*?)\n---  with re.DOTALL and without
\* re.MULTILINE: it can match at the start of the text only, and its body
\* runs to the nearest line that starts with three dashes.
FrontmatterMatch(s) ==
    IF ~(Len(s) >= 4 /\ SubSeq(s, 1, 4) = <<"-", "-", "-", "\n">>) THEN NoMatch
    ELSE LET K == {k \in 5..(Len(s) - 3) :
                      SubSeq(s, k, k + 3) = <<"\n", "-", "-", "-">>}
         IN  IF K = {} THEN NoMatch
             ELSE [start |-> 1, end |-> Min(K) + 4, group1 |-> Slice(s, 5, Min(K))]

YamlTitleOnly == <<"t", "i", "t", "l", "e", ":", " ", "T">>

YamlFull ==
    <<"t", "i", "t", "l", "e", ":", " ", "M", "y", " ", "T", "a", "l", "k",
      "\n", "a", "u", "t", "h", "o", "r", ":", " ", "A", "n", "n", "\n",
      "t", "a", "g", "s", ":", " ", "[", "a", ",", " ", "b", "]">>

YamlScalar == <<"j", "u", "s", "t", " ", "a", " ", "t", "i", "t", "l", "e">>

YamlList == <<"-", " ", "a", "\n", "-", " ", "b">>

YamlEmptyList == <<"[", "]">>

YamlUnclosed == <<"t", "i", "t", "l", "e", ":", " ", "[">>

\* An empty dict.
EmptyDict == [k \in {} |-> <<>>]

\* yaml.safe_load on the metadata bodies used below: the Python value it
\* returns, or the YAMLError it raises.
YamlSafeLoad(body) ==
    CASE body = <<>> -> [kind |-> "None", value |-> <<>>]
      [] body = YamlTitleOnly -> [kind |-> "dict", value |-> [title |-> <<"T">>]]
      [] body = YamlFull ->
            [kind |-> "dict",
             value |-> [title |-> <<"M", "y", " ", "T", "a", "l", "k">>, author |-> <<"A", "n", "n">>,
                        tags |-> <<<<"a">>, <<"b">>>>]]
      [] body = YamlScalar -> [kind |-> "str", value |-> YamlScalar]
      [] body = YamlList -> [kind |-> "list", value |-> <<<<"a">>, <<"b">>>>]
      [] body = YamlEmptyList -> [kind |-> "list", value |-> <<>>]
      [] body = YamlUnclosed -> [kind |-> "YAMLError", value |-> <<>>]

\* bool(fm): None and the empty dict, list and str are false.
Truthy(value) == value.kind # "None" /\ value.value # <<>>

_extract_frontmatter(content) ==
    LET match == FrontmatterMatch(content)
        fm == YamlSafeLoad(match.group1)
    IN  IF match = NoMatch THEN [kind |-> "dict", value |-> EmptyDict]
        ELSE IF fm.kind = "YAMLError" THEN [kind |-> "dict", value |-> EmptyDict]
        ELSE IF Truthy(fm) THEN fm
        ELSE [kind |-> "dict", value |-> EmptyDict]

\* frontmatter_pattern.sub('', content)
WithoutFrontmatter(content) ==
    IF FrontmatterMatch(content) = NoMatch THEN content
    ELSE Slice(content, FrontmatterMatch(content).end, Len(content) + 1)

\* d.get(key, default)
DictGet(d, key, default) == IF key \in DOMAIN d THEN d[key] ELSE default

Untitled == <<"U", "n", "t", "i", "t", "l", "e", "d">>

Unknown == <<"U", "n", "k", "n", "o", "w", "n">>

\* What a call gives back: the Document it returns, or the exception it
\* raises.
Returned(a) == [article |-> a, error |-> NoError]

Raised(type, message) ==
    [article |-> NoArticle, error |-> [type |-> type, message |-> message]]

\* parse_content with the code blocks and images of the document attached to
\* its first section as well.
ParseContentAttaching(content) ==
    LET metadata == _extract_frontmatter(content)
        content_without_fm == WithoutFrontmatter(content)
        code_blocks == _extract_code_blocks(content_without_fm)
        images == _extract_images(content_without_fm)
        sections == _extract_sections(content_without_fm)
    IN  IF metadata.kind # "dict" THEN Raised("AttributeError", <<>>)
        ELSE Returned([title |-> DictGet(metadata.value, "title", Untitled),
                       author |-> DictGet(metadata.value, "author", Unknown),
                       date |-> DictGet(metadata.value, "date", <<>>),
                       tags |-> DictGet(metadata.value, "tags", <<>>),
                       sections |-> IF sections = <<>> THEN sections
                                    ELSE [sections EXCEPT ![1].code_blocks = code_blocks,
                                                          ![1].images = images],
                       code_blocks |-> code_blocks,
                       images |-> images,
                       raw_content |-> content])

\* parse_content: the extractions run first; metadata.get is reached last and
\* raises AttributeError when the metadata is a str or a list.
parse_content(content) ==
    LET metadata == _extract_frontmatter(content)
        content_without_fm == WithoutFrontmatter(content)
        code_blocks == _extract_code_blocks(content_without_fm)
        images == _extract_images(content_without_fm)
        sections == _extract_sections(content_without_fm)
    IN  IF metadata.kind # "dict" THEN Raised("AttributeError", <<>>)
        ELSE Returned([title |-> DictGet(metadata.value, "title", Untitled),
                       author |-> DictGet(metadata.value, "author", Unknown),
                       date |-> DictGet(metadata.value, "date", <<>>),
                       tags |-> DictGet(metadata.value, "tags", <<>>),
                       sections |-> sections,
                       code_blocks |-> code_blocks,
                       images |-> images,
                       raw_content |-> content])

NotFoundPrefix == <<"A", "r", "t", "i", "c", "l", "e", " ", "n", "o", "t", " ", "f", "o", "u", "n", "d", ":", " ">>

\* parse_file with the text it read stripped before it is parsed.
ParseFileStripped(fs, path) ==
    IF fs[path].kind = "absent"
    THEN Raised("FileNotFoundError", NotFoundPrefix \o path)
    ELSE IF fs[path].kind = "directory"
    THEN Raised("IsADirectoryError", <<>>)
    ELSE parse_content(Strip(fs[path].text))

\* parse_file: Path.exists() is false for a path with nothing at it; open()
\* raises IsADirectoryError for a directory; otherwise the text is read and
\* parsed.
parse_file(fs, path) ==
    IF fs[path].kind = "absent"
    THEN Raised("FileNotFoundError", NotFoundPrefix \o path)
    ELSE IF fs[path].kind = "directory"
    THEN Raised("IsADirectoryError", <<>>)
    ELSE parse_content(fs[path].text)

----------------------------------------------------------------------------
(* parse_content and parse_file applied to texts made of a metadata block  *)
(* (or none) and up to MaxBodySegments pieces of body.                     *)

MaxBodySegments == 2

FrontmatterBlock(body) == <<"-", "-", "-", "\n">> \o body \o <<"\n", "-", "-", "-", "\n">>

\* No block, blocks of each kind of body, and a block that is never closed.
MetadataBlocks ==
    {<<>>, <<"-", "-", "-", "\n">> \o YamlTitleOnly \o <<"\n">>}
    \cup {FrontmatterBlock(body) :
            body \in {<<>>, YamlTitleOnly, YamlFull, YamlScalar, YamlList,
                      YamlEmptyList, YamlUnclosed}}

BodySegments ==
    { <<"#", " ", "T", "\n", "L", "e", "a", "d", " ", "t", "e", "x", "t",
        ".", "\n">>,
      <<"#", "#", " ", "A", "\n", "H", "e", "l", "l", "o", " ", "t", "h",
        "e", "r", "e", ".", " ", "M", "o", "r", "e", "!", "\n", "-", " ",
        "a", "\n">>,
      <<BQ, BQ, BQ, "p", "y", "\n", "x", " ", "=", " ", "1", "\n", BQ, BQ,
        BQ, "\n">>,
      <<"!", "[", "D", "]", "(", "m", "e", "r", "m", "a", "i", "d", ".",
        "p", "n", "g", ")", "\n">>,
      <<"#", "#", "#", " ", "s", "\n", "s", "u", "b", "\n">>,
      <<"#", "#", " ", "C", "o", "n", "c", "l", "u", "s", "i", "o", "n",
        "\n", "*", " ", "k", "\n">> }

ParseTexts ==
    {block \o body : block \in MetadataBlocks,
                     body \in Concatenations(BodySegments, MaxBodySegments)}

ArticlePath == <<"a", ".", "m", "d">>

MissingPath == <<"g", "o", "n", "e", ".", "m", "d">>

DirectoryPath == <<"d", "o", "c", "s">>

Paths == {ArticlePath, MissingPath, DirectoryPath}

\* A file system with the text at ArticlePath, nothing at MissingPath and a
\* directory at DirectoryPath.
FileSystem(content) ==
    [p \in Paths |->
        IF p = ArticlePath THEN [kind |-> "file", text |-> content]
        ELSE IF p = DirectoryPath THEN [kind |-> "directory", text |-> <<>>]
        ELSE [kind |-> "absent", text |-> <<>>]]

InitParse ==
    /\ pc = "call"
    /\ text \in ParseTexts
    /\ files = FileSystem(text)
    /\ file_path \in Paths
    /\ article = NoArticle /\ error = NoError
    /\ num = 0 /\ ret = NoValue /\ slides = NoValue /\ estimate = NoValue

ParseContent ==
    /\ pc = "call"
    /\ article' = parse_content(text).article
    /\ error' = parse_content(text).error
    /\ pc' = "parsed"
    /\ UNCHANGED <<text, num, ret, files, file_path, slides, estimate>>

ParseFile ==
    /\ pc = "call"
    /\ article' = parse_file(files, file_path).article
    /\ error' = parse_file(files, file_path).error
    /\ pc' = "read"
    /\ UNCHANGED <<text, num, ret, files, file_path, slides, estimate>>

\* After a parse that returned a Document the caller may plan its slides and
\* ask for the estimate, in either order.
NextParse ==
    \/ ParseContent
    \/ ParseFile
    \/ CreateSlidePlan
    \/ CalculateSlideCount
    \/ GetEstimatedSlideCount

SpecParse == InitParse /\ [][NextParse]_vars

\* The text opens with a metadata block whose body loads as a key-value
\* mapping.
HasMappingMetadata(content) ==
    /\ FrontmatterMatch(content) # NoMatch
    /\ YamlSafeLoad(FrontmatterMatch(content).group1).kind = "dict"

\* C2 (as claimed): whenever the metadata block is absent or malformed (a body
\* that does not load, or loads as something other than a mapping),
\* parse_content returns a Document with the default title, author, date and
\* tags.
C2_DefaultsWithoutMetadata ==
    (pc = "parsed" /\ ~HasMappingMetadata(text)) =>
        /\ error = NoError
        /\ article.title = Untitled
        /\ article.author = Unknown
        /\ article.date = <<>>
        /\ article.tags = <<>>

\* C10: parse_file on a path with nothing at it raises FileNotFoundError with
\* the path in its message and builds no Document; on the path of a file it
\* gives exactly what parse_content gives on the file's text.
C10_ParseFile ==
    pc = "read" =>
        /\ files[file_path].kind = "absent" =>
            /\ error.type = "FileNotFoundError"
            /\ Contains(error.message, file_path)
            /\ article = NoArticle
        /\ files[file_path].kind = "file" =>
            /\ article = parse_content(files[file_path].text).article
            /\ error = parse_content(files[file_path].text).error

\* C10's case: parse_file called with a path that does not exist.
C10_Witness ==
    /\ pc = "read"
    /\ files[file_path].kind = "absent"
    /\ error.type = "FileNotFoundError"

----------------------------------------------------------------------------
(* The conclusion slide.                                                   *)

\* The sections whose heading holds "conclusion", case ignored.
ConclusionSections(a) ==
    {i \in 1..Len(a.sections) : HasWord(a.sections[i].heading, ConclusionWord)}

\* The body of the first of them, empty when there is none.
ConclusionBody(a) ==
    IF ConclusionSections(a) = {} THEN <<>>
    ELSE a.sections[Min(ConclusionSections(a))].content

\* What C12 says of the conclusion slide at the end of the plan, with the body
\* that the fallback reads left open.
ConclusionSlideFrom(fallback) ==
    LET last == slides[Len(slides)]
        own == _extract_bullet_points(ConclusionBody(article), 5)
    IN  /\ last.content.takeaways =
               IF own # <<>> THEN own ELSE _extract_bullet_points(fallback, 5)
        /\ Len(last.content.takeaways) <= 5
        /\ last.content.cta =
               <<"C", "h", "e", "c", "k", " ", "o", "u", "t", " ", "t",
                 "h", "e", " ", "f", "u", "l", "l", " ", "a", "r", "t",
                 "i", "c", "l", "e", " ", "a", "n", "d", " ", "c", "o",
                 "d", "e", " ", "e", "x", "a", "m", "p", "l", "e", "s">>
        /\ Len(last.speaker_notes) = IF Len(ConclusionBody(article)) < 500
                                     THEN Len(ConclusionBody(article)) ELSE 500
        /\ \A k \in 1..Len(last.speaker_notes) :
               last.speaker_notes[k] = ConclusionBody(article)[k]

\* C12 (as claimed): the takeaways are the up to 5 bullets of the first
\* section whose heading holds "conclusion"; without such a section, or
\* without bullets in it, they are the bullets of the first section of level
\* 2, and none when there is no such section; the call to action is fixed; the
\* notes are the first 500 characters of the conclusion section's body.
C12_FallbackFirstLevel2 ==
    PlanReturned =>
        LET main == {i \in 1..Len(article.sections) : article.sections[i].level = 2}
        IN  ConclusionSlideFrom(IF main = {} THEN <<>>
                                ELSE article.sections[Min(main)].content)

\* C12 (amended): as claimed, except that the fallback reads the body of the
\* first section of the Document in document order, whatever its level.
C12_FallbackFirstSection ==
    PlanReturned =>
        ConclusionSlideFrom(IF article.sections = <<>> THEN <<>>
                            ELSE article.sections[1].content)

\* C12's case: the conclusion section has no bullets, and the takeaways come
\* from a first section that is not of level 2, while the notes come from the
\* conclusion section.
C12_Witness ==
    /\ PlanReturned
    /\ ConclusionSections(article) # {}
    /\ _extract_bullet_points(ConclusionBody(article), 5) = <<>>
    /\ article.sections[1].level # 2
    /\ slides[Len(slides)].content.takeaways # <<>>
    /\ slides[Len(slides)].speaker_notes # <<>>


----------------------------------------------------------------------------
(* The plan and the estimate of a parsed Document.                         *)

\* C16: in a Document that the parser returned every section and subsection
\* has no code block and no image of its own, so the plan holds no code and no
\* visual slide and has 2 + n slides for n sections of level 2; the estimate
\* is larger than the plan by n + (code blocks of the Document) + (images of
\* the Document), and the two agree only when all three are zero.
C16_PlanShorterThanEstimate ==
    article # NoArticle =>
        LET secs == article.sections
            n == Cardinality({i \in 1..Len(secs) : secs[i].level = 2})
            extra == n + Len(article.code_blocks) + Len(article.images)
        IN  /\ \A i \in 1..Len(secs) :
                /\ secs[i].code_blocks = <<>> /\ secs[i].images = <<>>
                /\ \A k \in 1..Len(secs[i].subsections) :
                    /\ secs[i].subsections[k].code_blocks = <<>>
                    /\ secs[i].subsections[k].images = <<>>
            /\ PlanReturned =>
                /\ Len(slides) = 2 + n
                /\ \A k \in 1..Len(slides) : slides[k].type \notin {"code", "visual"}
            /\ pc = "done" =>
                /\ estimate - Len(slides) = extra
                /\ estimate = Len(slides) <=>
                       (n = 0 /\ article.code_blocks = <<>> /\ article.images = <<>>)

\* C16's case: a text with a level-2 section, a subsection or a second
\* section, and a code block or an image, parsed, planned and estimated.
C16_Witness ==
    /\ pc = "done"
    /\ article # NoArticle
    /\ article.sections # <<>>
    /\ (article.code_blocks # <<>> \/ article.images # <<>>)
    /\ Len(slides) = 2 + Len(article.sections)
    /\ estimate > Len(slides) + Len(article.sections)


====
